---- MODULE Spec2Model ----
(***************************************************************************)
(* A model of the Blender add-on src/addons/SplitParts.py: the operator    *)
(* SplitParts.execute with its helpers get_inner_and_outer,                *)
(* cut_along_axis, get_local_axis_vector and export_to_stl, run against a  *)
(* small model of the host state they read and write (bpy.data.objects,    *)
(* bpy.data.collections, the active object, the selection, the editing     *)
(* mode, the file system).                                                 *)
(*                                                                         *)
(* Strings are sequences of one-character strings, so that formatting,     *)
(* sanitizing and path building are computed character by character.       *)
(* Coordinates are binary floating-point numbers with MantBits bits of     *)
(* mantissa, stored as integer multiples of the spacing of the floats in   *)
(* [1, 2): the value 1.0 is the integer One.                               *)
(***************************************************************************)
EXTENDS Integers, Sequences, FiniteSets, TLC

\* ------------------------------------------------------------------ bounds

\* Bits of mantissa of a coordinate (24 in the host's 32-bit floats).
MantBits == 3
\* Invocations of execute in one behaviour.
MaxRuns == 2
\* An invocation on an already populated collection is started only when it
\* ends with at most this many objects in the collection.
MaxObjects == 3
\* Longest object name drawn for the sanitization check.
MaxLen == 3

\* ----------------------------------------------------------------- strings

Digit == <<"0", "1", "2", "3", "4", "5", "6", "7", "8", "9">>

RECURSIVE Dec(_)
\* str(n) for n >= 0, as an f-string field formats it.
Dec(n) == IF n < 10 THEN <<Digit[n + 1]>>
          ELSE Dec(n \div 10) \o <<Digit[(n % 10) + 1]>>

IsDigit(c) == \E i \in 1..10 : Digit[i] = c

\* f"Part {index} - {X}-{Y}-{Z} - Inner" and "... - Outer"
sInner == <<"I", "n", "n", "e", "r">>
sOuter == <<"O", "u", "t", "e", "r">>

\* Variant: the index field left out of the f-string.
FmtPartName_withoutIndex(index, X, Y, Z, role) ==
    <<"P", "a", "r", "t", " ">> \o <<" ", "-", " ">>
        \o Dec(X) \o <<"-">> \o Dec(Y) \o <<"-">> \o Dec(Z)
        \o <<" ", "-", " ">> \o role

FmtPartName(index, X, Y, Z, role) ==
    <<"P", "a", "r", "t", " ">> \o Dec(index) \o <<" ", "-", " ">>
        \o Dec(X) \o <<"-">> \o Dec(Y) \o <<"-">> \o Dec(Z)
        \o <<" ", "-", " ">> \o role

sPartCopy == <<"p", "a", "r", "t">>

\* f'{context.object.name}_parts'
CollectionName(objname) == objname \o <<"_", "p", "a", "r", "t", "s">>

\* The characters of the class [\\/:*?"<>|] of the re.sub call.
IllegalChars == {"\\", "/", ":", "*", "?", "\"", "<", ">", "|"}

\* Variant: the character class without its last character, "|".
IsLegalChar_withoutPipe(c) == c \notin (IllegalChars \ {"|"})

IsLegalChar(c) == c \notin IllegalChars

\* re.sub(r'[\\/:*?"<>|]', "", name)
Sanitize(name) == SelectSeq(name, IsLegalChar)

\* Index of the last occurrence of character c in s, 0 when there is none.
LastIndexOf(s, c) ==
    LET hits == {i \in 1..Len(s) : s[i] = c}
    IN  IF hits = {} THEN 0 ELSE CHOOSE i \in hits : \A j \in hits : j <= i

\* os.path.basename
Basename(p) == SubSeq(p, LastIndexOf(p, "/") + 1, Len(p))

\* os.path.dirname
Dirname(p) ==
    LET i == LastIndexOf(p, "/")
    IN  IF i = 0 THEN <<>> ELSE IF i = 1 THEN <<"/">> ELSE SubSeq(p, 1, i - 1)

\* os.path.splitext(name)[0]: the extension starts at the last dot, unless the
\* name has no dot or only leading dots before it.
SplitExtRoot(name) ==
    LET i == LastIndexOf(name, ".")
    IN  IF i = 0 \/ (\A j \in 1..i : name[j] = ".") THEN name
        ELSE SubSeq(name, 1, i - 1)

\* os.path.join(a, b)
PathJoin(a, b) ==
    IF Len(b) > 0 /\ b[1] = "/" THEN b
    ELSE IF Len(a) = 0 \/ a[Len(a)] = "/" THEN a \o b
    ELSE a \o <<"/">> \o b

EndsWith(s, suffix) ==
    /\ Len(s) >= Len(suffix)
    /\ SubSeq(s, Len(s) - Len(suffix) + 1, Len(s)) = suffix

sStl == <<".", "s", "t", "l">>

\* bpy.path.ensure_ext(filepath, ".stl")
EnsureExt(filepath) == IF EndsWith(filepath, sStl) THEN filepath ELSE filepath \o sStl

\* bpy.data.filepath of the saved document.
DocFilepath == <<"/", "w", "/", "s", "c", "e", "n", "e", ".", "b", "l", "e", "n", "d">>

\* bpy.path.abspath: a leading "//" stands for the document's directory.
AbsPath(p) ==
    IF Len(p) >= 2 /\ p[1] = "/" /\ p[2] = "/"
    THEN PathJoin(Dirname(DocFilepath), SubSeq(p, 3, Len(p)))
    ELSE p

\* The directory a path names, without a trailing separator.
DirKey(p) == IF Len(p) > 1 /\ p[Len(p)] = "/" THEN SubSeq(p, 1, Len(p) - 1) ELSE p

\* Variant: the object name never appended to the document's name.
ExportName_withoutObjectName(objname) == SplitExtRoot(Basename(DocFilepath))

\* name = splitext(basename(bpy.data.filepath))[0] + "-" + sanitized object name
ExportName(objname) == SplitExtRoot(Basename(DocFilepath)) \o <<"-">> \o Sanitize(objname)

\* filepath = ensure_ext(os.path.join(export_path, name), ".stl")
ExportFilepath(export_path, objname) ==
    EnsureExt(PathJoin(AbsPath(export_path), ExportName(objname)))

\* ------------------------------------------------------- floating point

Abs(n) == IF n < 0 THEN -n ELSE n

RECURSIVE Pow2(_)
Pow2(k) == IF k <= 0 THEN 1 ELSE 2 * Pow2(k - 1)

RECURSIVE BitLen(_)
\* Number of binary digits of n >= 0.
BitLen(n) == IF n = 0 THEN 0 ELSE 1 + BitLen(n \div 2)

\* The integer that stands for the coordinate 1.0.
One == Pow2(MantBits - 1)

\* Round to the nearest number with MantBits significant bits, ties to even.
Fl(n) ==
    LET a == Abs(n)
        s == Pow2(BitLen(a) - MantBits)
        q == a \div s
        r == a % s
        up == (2 * r > s) \/ (2 * r = s /\ q % 2 = 1)
        m == (IF up THEN q + 1 ELSE q) * s
    IN  IF n < 0 THEN -m ELSE m

\* Spacing of the floats around n.
Ulp(n) == Pow2(BitLen(Abs(n)) - MantBits)

VAdd(u, v) == [i \in 1..3 |-> Fl(u[i] + v[i])]
\* mathutils.Vector.__sub__
VSub(u, v) == [i \in 1..3 |-> Fl(u[i] - v[i])]
Dot(u, v) == u[1] * v[1] + u[2] * v[2] + u[3] * v[3]

\* An orientation is a rotation by quarter turns: rot[i] is the image, in the
\* parent frame, of the object's local axis i.
RotIdentity == <<(<<1, 0, 0>>), (<<0, 1, 0>>), (<<0, 0, 1>>)>>
RotQuarterZ == <<(<<0, 1, 0>>), (<<-1, 0, 0>>), (<<0, 0, 1>>)>>

LocalToWorld(rot, v) ==
    [i \in 1..3 |-> v[1] * rot[1][i] + v[2] * rot[2][i] + v[3] * rot[3][i]]

\* bpy.ops.transform.translate(value, constraint_axis, orient_type='LOCAL') on an
\* object at `location`: the value, kept on the constrained axes, is taken in the
\* object's own orientation and added to the location.
Translate(location, rot, value, constraint_axis) ==
    LET kept == [i \in 1..3 |-> IF constraint_axis[i] THEN value[i] * One ELSE 0]
    IN  VAdd(location, LocalToWorld(rot, kept))

ConstraintAxis(X, Y, Z) == <<X = 1, Y = 1, Z = 1>>

\* get_local_axis_vector on an object at `location`, entered in mode mode0: what
\* it returns and the location and the mode it leaves.
GetLocalAxisVector(location, rot, mode0, X, Y, Z) ==
    LET v1 == location
        l1 == Translate(location, rot, <<X, Y, Z>>, ConstraintAxis(X, Y, Z))
        v2 == l1
        l2 == Translate(l1, rot, <<-X, -Y, -Z>>, ConstraintAxis(X, Y, Z))
    IN  [ret |-> VSub(v1, v2), location |-> l2, mode |-> mode0]

\* ----------------------------------------------------------------- meshes

\* A mesh is the set of octants of the object's local frame it still fills.
Octants == {<<sx, sy, sz>> : sx \in {-1, 1}, sy \in {-1, 1}, sz \in {-1, 1}}

\* Half the edge of an octant, in coordinate units.
OctantReach == One \div 2

\* Signed side of the plane (plane_co, plane_no) on which octant o of an object
\* at `location` lies.
PlaneSide(o, location, rot, plane_co, plane_no) ==
    LET c == LocalToWorld(rot, o)
    IN  Dot(plane_no, [i \in 1..3 |-> location[i] + OctantReach * c[i] - plane_co[i]])

\* bpy.ops.mesh.bisect(plane_co, plane_no, use_fill, clear_inner, clear_outer,
\* threshold=0) with everything selected: clear_outer drops what lies in front of
\* the plane (the side of the normal), clear_inner what lies behind it.
Bisect(mesh, location, rot, plane_co, plane_no, clear_inner, clear_outer) ==
    {o \in mesh :
        LET d == PlaneSide(o, location, rot, plane_co, plane_no)
        IN  /\ ~(clear_outer /\ d > 0)
            /\ ~(clear_inner /\ d < 0)}

\* ------------------------------------------------------------ host names

\* A name without the numeric suffix ".NNN" the host appends.
StripNumSuffix(name) ==
    LET i == LastIndexOf(name, ".")
    IN  IF i > 1 /\ i < Len(name) /\ (\A j \in (i + 1)..Len(name) : IsDigit(name[j]))
        THEN SubSeq(name, 1, i - 1)
        ELSE name

Pad3(n) == IF n < 10 THEN <<"0", "0">> \o Dec(n)
           ELSE IF n < 100 THEN <<"0">> \o Dec(n) ELSE Dec(n)

WithSuffix(base, n) == base \o <<".">> \o Pad3(n)

\* The name the host gives an object asked to be called `name` while the names
\* in `taken` belong to other objects: the name itself when it is free, else
\* its base with the first free numeric suffix.
UniqueName(name, taken) ==
    IF name \notin taken THEN name
    ELSE LET base == StripNumSuffix(name)
             n == CHOOSE k \in 1..(Cardinality(taken) + 1) :
                     /\ WithSuffix(base, k) \notin taken
                     /\ \A j \in 1..(k - 1) : WithSuffix(base, j) \in taken
         IN  WithSuffix(base, n)

\* ------------------------------------------------------------------ state

VARIABLES
    objects,      \* bpy.data.objects: a sequence of objects, an object's id its index
    collections,  \* bpy.data.collections: a sequence of [name, objects, linked]
    active,       \* bpy.context.object / view_layer.objects.active
    selected,     \* the ids of the selected objects
    mode,         \* the editing mode of the active object: "OBJECT" or "EDIT"
    splitparts,   \* context.scene.splitparts: [axis, export, export_path]
    fs_dirs,      \* the directories that exist
    fs_files,     \* the files that exist
    pc,           \* the statement execute is at
    frame,        \* the local variables of execute and of the helpers it is in
    log,          \* what this invocation has done so far
    result,       \* how the last invocation ended
    runs,         \* invocations started
    san_in,       \* sanitization check: the name given
    san_out,      \* sanitization check: the names returned so far
    san_pc        \* sanitization check: calls made

hostVars == <<objects, collections, active, selected, mode>>
fsVars == <<fs_dirs, fs_files>>
sanVars == <<san_in, san_out, san_pc>>
vars == <<objects, collections, active, selected, mode, splitparts, fs_dirs,
          fs_files, pc, frame, log, result, runs, san_in, san_out, san_pc>>

\* A Python value of the loop header of cut_along_axis: an object or a bool.
PyObj(id) == [obj |-> id]
PyBool(b) == [bool |-> b]
IsPyObj(v) == DOMAIN v = {"obj"}
IsPyBool(v) == DOMAIN v = {"bool"}

sCube == <<"C", "u", "b", "e">>
sDefaultCollection == <<"C", "o", "l", "l", "e", "c", "t", "i", "o", "n">>

\* The documents execute is run in: one mesh object, the source, with its
\* name, location, orientation and modifier count.
Scenes ==
    { [name |-> sCube, location |-> <<0, 0, 0>>, rot |-> RotIdentity, modifiers |-> 0],
      [name |-> sCube, location |-> <<-(One + 1), One + 1, One + 1>>,
       rot |-> RotQuarterZ, modifiers |-> 2] }

\* The id of the source object.
Source == 1

\* The export directories the user may set: the default "//" and "/o".
ExportPaths == { <<"/", "/">>, <<"/", "o">> }

Frame0 ==
    [collection |-> 0, axis |-> <<0, 0, 0>>, ret |-> "none", snapshot |-> <<>>,
     index |-> 0, object |-> 0, inner |-> 0, outer |-> 0, pairs |-> <<>>, sub |-> 0,
     subobject |-> PyBool(FALSE), is_inner |-> PyBool(FALSE),
     current_mode |-> "OBJECT", v1 |-> <<0, 0, 0>>, v2 |-> <<0, 0, 0>>,
     cut_normal |-> <<0, 0, 0>>, mod_i |-> 0, exp_i |-> 0, mkdir |-> "none",
     passes |-> 0, n0 |-> 0, before |-> 0]

Log0 == [hostOps |-> 0, failed |-> FALSE, bisects |-> <<>>, exports |-> <<>>,
         mkdirFailed |-> FALSE]

SanInit == /\ san_in = <<>>
           /\ san_out = <<>>
           /\ san_pc = 0

Init ==
    /\ \E sc \in Scenes :
          objects = << [name |-> sc.name, location |-> sc.location, rot |-> sc.rot,
                        mesh |-> Octants, modifiers |-> sc.modifiers,
                        consistent |-> TRUE] >>
    /\ collections = << [name |-> sDefaultCollection, objects |-> <<Source>>,
                         linked |-> TRUE] >>
    /\ active = Source
    /\ selected = {Source}
    /\ mode = "OBJECT"
    /\ splitparts = [axis |-> <<FALSE, FALSE, FALSE>>, export |-> FALSE,
                     export_path |-> <<"/", "/">>]
    /\ fs_dirs = {Dirname(DocFilepath)}
    /\ fs_files = {DocFilepath}
    /\ pc = "idle"
    /\ frame = Frame0
    /\ log = Log0
    /\ result = "none"
    /\ runs = 0
    /\ SanInit

\* ---------------------------------------------------------- host helpers

AllNames(objs) == {objs[i].name : i \in DOMAIN objs}
OtherNames(objs, id) == {objs[i].name : i \in DOMAIN objs \ {id}}

\* object.name = name
Renamed(objs, id, name) ==
    [objs EXCEPT ![id].name = UniqueName(name, OtherNames(objs, id))]

Contains(seq, x) == \E i \in DOMAIN seq : seq[i] = x

\* object.users_collection[0]
FirstUserCollection(colls, id) ==
    CHOOSE c \in DOMAIN colls :
        /\ Contains(colls[c].objects, id)
        /\ \A d \in DOMAIN colls : Contains(colls[d].objects, id) => c <= d

\* Variant: the lookup always ends in KeyError.
FindCollection_alwaysMissing(colls, name) == 0

\* bpy.data.collections[name]: the index of the collection of that name, 0 for
\* a KeyError.
FindCollection(colls, name) ==
    IF \E c \in DOMAIN colls : colls[c].name = name
    THEN CHOOSE c \in DOMAIN colls : colls[c].name = name
    ELSE 0

\* The objects of bpy.ops.object.duplicate(linked=False) of object id: a copy,
\* under a fresh name, at the end of bpy.data.objects.
DuplicateObjects(objs, id) ==
    Append(objs, [objs[id] EXCEPT !.name = UniqueName(objs[id].name, AllNames(objs))])

\* The collections after that duplicate: the copy joins those of the original.
DuplicateCollections(colls, id, new) ==
    [c \in DOMAIN colls |->
        IF Contains(colls[c].objects, id)
        THEN [colls[c] EXCEPT !.objects = Append(@, new)]
        ELSE colls[c]]

\* The number of enabled axes of a selection.
AxisCount(axis) == Cardinality({i \in 1..3 : axis[i]})

\* The objects of the collection execute works in.
Parts == IF frame.collection = 0 THEN <<>> ELSE collections[frame.collection].objects

\* A host operator was called and returned.
OpOk == log' = [log EXCEPT !.hostOps = @ + 1]

\* A host operator was called and failed: bpy.ops raises, nothing in execute
\* or its helpers catches it, and the invocation ends where it is.
HostFailure ==
    /\ pc' = "raised"
    /\ result' = "RuntimeError"
    /\ log' = [log EXCEPT !.hostOps = @ + 1, !.failed = TRUE]
    /\ UNCHANGED <<hostVars, fsVars, frame, splitparts, runs, sanVars>>

\* -------------------------------------------------------------- execute

\* The user sets the panel's properties, selects the source object in object
\* mode and runs the operator (poll: the active object is a mesh).
Invoke ==
    /\ pc \in {"idle", "finished", "raised"}
    /\ runs < MaxRuns
    /\ \E axis \in [1..3 -> BOOLEAN], export \in BOOLEAN, path \in ExportPaths :
          LET c == FindCollection(collections, CollectionName(objects[Source].name))
              n == IF c = 0 THEN 0 ELSE Len(collections[c].objects)
          IN  /\ runs = 0 \/ (n + 1) * Pow2(AxisCount(axis)) <= MaxObjects
              /\ export \/ path = splitparts.export_path
              /\ splitparts' = [axis |-> axis, export |-> export, export_path |-> path]
    /\ active' = Source
    /\ selected' = {Source}
    /\ mode' = "OBJECT"
    /\ pc' = "lookup"
    /\ frame' = Frame0
    /\ log' = Log0
    /\ result' = "running"
    /\ runs' = runs + 1
    /\ UNCHANGED <<objects, collections, fsVars, sanVars>>

\* collection = bpy.data.collections[collection_name], or a new collection
\* linked to the scene on KeyError.
CollectionLookup ==
    /\ pc = "lookup"
    /\ LET name == CollectionName(objects[active].name)
           c == FindCollection(collections, name)
           taken == {collections[i].name : i \in DOMAIN collections}
       IN  IF c # 0
           THEN /\ frame' = [frame EXCEPT !.collection = c]
                /\ UNCHANGED collections
           ELSE /\ collections' = Append(collections,
                                     [name |-> UniqueName(name, taken),
                                      objects |-> <<>>, linked |-> TRUE])
                /\ frame' = [frame EXCEPT !.collection = Len(collections) + 1]
    /\ pc' = "duplicate"
    /\ UNCHANGED <<objects, active, selected, mode, splitparts, fsVars, log,
                   result, runs, sanVars>>

\* bpy.ops.object.duplicate(linked = False) of the selected source.
DuplicateSource ==
    /\ pc = "duplicate"
    /\ \/ /\ objects' = DuplicateObjects(objects, active)
          /\ collections' = DuplicateCollections(collections, active, Len(objects) + 1)
          /\ active' = Len(objects) + 1
          /\ selected' = {Len(objects) + 1}
          /\ pc' = "link"
          /\ OpOk
          /\ UNCHANGED <<mode, splitparts, fsVars, frame, result, runs, sanVars>>
       \/ HostFailure

\* The copy is named "part", linked to the working collection and unlinked
\* from the collection it was in.
RenameAndLink ==
    /\ pc = "link"
    /\ LET old == FirstUserCollection(collections, active)
           c == frame.collection
       IN  collections' =
               [i \in DOMAIN collections |->
                   IF i = c /\ i # old
                   THEN [collections[i] EXCEPT !.objects = Append(@, active)]
                   ELSE IF i = old /\ i # c
                   THEN [collections[i] EXCEPT
                            !.objects = SelectSeq(@, LAMBDA x : x # active)]
                   ELSE collections[i]]
    /\ objects' = Renamed(objects, active, sPartCopy)
    /\ frame' = [frame EXCEPT !.mod_i = 0]
    /\ pc' = "modifiers"
    /\ UNCHANGED <<active, selected, mode, splitparts, fsVars, log, result, runs,
                   sanVars>>

\* for modifier in context.object.modifiers: modifier_apply. The loop walks the
\* live list by position while each apply removes a modifier from it.
ModifierApply ==
    /\ pc = "modifiers"
    /\ frame.mod_i < objects[active].modifiers
    /\ \/ /\ objects' = [objects EXCEPT ![active].modifiers = @ - 1]
          /\ frame' = [frame EXCEPT !.mod_i = @ + 1]
          /\ OpOk
          /\ UNCHANGED <<collections, active, selected, mode, splitparts, fsVars,
                         pc, result, runs, sanVars>>
       \/ HostFailure

ModifiersDone ==
    /\ pc = "modifiers"
    /\ frame.mod_i >= objects[active].modifiers
    /\ pc' = "if_X"
    /\ frame' = [frame EXCEPT !.n0 = Len(Parts), !.passes = 0]
    /\ UNCHANGED <<hostVars, splitparts, fsVars, log, result, runs, sanVars>>

\* X, Y, Z = splitparts.axis; if X: ...; if Y: ...; if Z: ...
AxisAt(label) == IF label = "if_X" THEN 1 ELSE IF label = "if_Y" THEN 2 ELSE 3
AfterAxis(label) ==
    IF label = "if_X" THEN "if_Y" ELSE IF label = "if_Y" THEN "if_Z" ELSE "mode_object"
UnitAxis(a) == [i \in 1..3 |-> IF i = a THEN 1 ELSE 0]

\* An enabled axis: cut_along_axis(collection.objects, ...) is entered, and
\* list(objects) copies the collection's objects as they are now.
CutAlongAxis ==
    /\ pc \in {"if_X", "if_Y", "if_Z"}
    /\ splitparts.axis[AxisAt(pc)]
    /\ frame' = [frame EXCEPT !.axis = UnitAxis(AxisAt(pc)), !.ret = AfterAxis(pc),
                              !.snapshot = Parts, !.index = 0, !.before = Len(Parts)]
    /\ pc' = "loop"
    /\ UNCHANGED <<hostVars, splitparts, fsVars, log, result, runs, sanVars>>

\* A disabled axis is skipped.
SkipAxis ==
    /\ pc \in {"if_X", "if_Y", "if_Z"}
    /\ ~splitparts.axis[AxisAt(pc)]
    /\ pc' = AfterAxis(pc)
    /\ UNCHANGED <<hostVars, splitparts, fsVars, frame, log, result, runs, sanVars>>

\* ------------------------------------------------------- cut_along_axis

\* Variant: enumerate(objects), without the copy: the loop walks the live
\* collection.
LoopItems_live(snapshot, live) == live

\* The sequence "for index, object in enumerate(list(objects))" walks: the copy
\* made on entry, not the collection as it grows.
LoopItems(snapshot, live) == snapshot

LoopNext ==
    /\ pc = "loop"
    /\ frame.index < Len(LoopItems(frame.snapshot, Parts))
    /\ frame' = [frame EXCEPT !.object = LoopItems(frame.snapshot, Parts)[frame.index + 1]]
    /\ pc' = "gio_mode"
    /\ UNCHANGED <<hostVars, splitparts, fsVars, log, result, runs, sanVars>>

\* The loop is exhausted: cut_along_axis returns to execute.
PassDone ==
    /\ pc = "loop"
    /\ frame.index >= Len(LoopItems(frame.snapshot, Parts))
    /\ frame' = [frame EXCEPT !.passes = @ + 1]
    /\ pc' = frame.ret
    /\ UNCHANGED <<hostVars, splitparts, fsVars, log, result, runs, sanVars>>

\* get_inner_and_outer: bpy.ops.object.mode_set(mode = "OBJECT")
GioModeSet ==
    /\ pc = "gio_mode"
    /\ \/ /\ mode' = "OBJECT"
          /\ pc' = "gio_select"
          /\ OpOk
          /\ UNCHANGED <<objects, collections, active, selected, splitparts, fsVars,
                         frame, result, runs, sanVars>>
       \/ HostFailure

\* get_inner_and_outer: select_all(action = 'DESELECT'), then the object alone
\* is selected and made active.
GioSelect ==
    /\ pc = "gio_select"
    /\ \/ /\ selected' = {frame.object}
          /\ active' = frame.object
          /\ pc' = "gio_duplicate"
          /\ OpOk
          /\ UNCHANGED <<objects, collections, mode, splitparts, fsVars, frame,
                         result, runs, sanVars>>
       \/ HostFailure

\* get_inner_and_outer: bpy.ops.object.duplicate(linked = False); the copy is
\* the new active object, returned as outer.
GioDuplicate ==
    /\ pc = "gio_duplicate"
    /\ \/ /\ objects' = DuplicateObjects(objects, active)
          /\ collections' = DuplicateCollections(collections, active, Len(objects) + 1)
          /\ active' = Len(objects) + 1
          /\ selected' = {Len(objects) + 1}
          /\ frame' = [frame EXCEPT !.inner = frame.object, !.outer = Len(objects) + 1]
          /\ pc' = "rename"
          /\ OpOk
          /\ UNCHANGED <<mode, splitparts, fsVars, result, runs, sanVars>>
       \/ HostFailure

\* The orders in which iterating the two-element set {a, b} may yield its
\* elements: a set has no order of its own, it follows the elements' hashes.
SetIterOrders(a, b) == { <<a, b>>, <<b, a>> }

\* inner.name = ..., outer.name = ..., and the list of the loop header,
\* [{ inner, True }, { outer, False }], is built.
RenameParts ==
    /\ pc = "rename"
    /\ LET X == frame.axis[1]
           Y == frame.axis[2]
           Z == frame.axis[3]
           o1 == Renamed(objects, frame.inner, FmtPartName(frame.index, X, Y, Z, sInner))
       IN  objects' = Renamed(o1, frame.outer, FmtPartName(frame.index, X, Y, Z, sOuter))
    /\ \E p1 \in SetIterOrders(PyObj(frame.inner), PyBool(TRUE)),
          p2 \in SetIterOrders(PyObj(frame.outer), PyBool(FALSE)) :
          frame' = [frame EXCEPT !.pairs = <<p1, p2>>, !.sub = 1]
    /\ pc' = "sub_next"
    /\ UNCHANGED <<collections, active, selected, mode, splitparts, fsVars, log,
                   result, runs, sanVars>>

\* for subobject, is_inner in [...]: the next set is unpacked.
SubNext ==
    /\ pc = "sub_next"
    /\ frame.sub <= Len(frame.pairs)
    /\ frame' = [frame EXCEPT !.subobject = frame.pairs[frame.sub][1],
                              !.is_inner = frame.pairs[frame.sub][2]]
    /\ pc' = "sub_mode_object"
    /\ UNCHANGED <<hostVars, splitparts, fsVars, log, result, runs, sanVars>>

\* Both sets are done: the outer loop moves to the next object.
SubDone ==
    /\ pc = "sub_next"
    /\ frame.sub > Len(frame.pairs)
    /\ frame' = [frame EXCEPT !.index = @ + 1]
    /\ pc' = "loop"
    /\ UNCHANGED <<hostVars, splitparts, fsVars, log, result, runs, sanVars>>

\* bpy.ops.object.mode_set(mode = "OBJECT")
SubModeObject ==
    /\ pc = "sub_mode_object"
    /\ \/ /\ mode' = "OBJECT"
          /\ pc' = "sub_deselect"
          /\ OpOk
          /\ UNCHANGED <<objects, collections, active, selected, splitparts, fsVars,
                         frame, result, runs, sanVars>>
       \/ HostFailure

\* bpy.ops.object.select_all(action = 'DESELECT')
SubDeselect ==
    /\ pc = "sub_deselect"
    /\ \/ /\ selected' = {}
          /\ pc' = "sub_select"
          /\ OpOk
          /\ UNCHANGED <<objects, collections, active, mode, splitparts, fsVars,
                         frame, result, runs, sanVars>>
       \/ HostFailure

\* subobject.select_set(True); view_layer.objects.active = subobject. A bool has
\* no select_set: the call raises AttributeError.
SubSelect ==
    /\ pc = "sub_select"
    /\ \/ /\ IsPyObj(frame.subobject)
          /\ selected' = selected \cup {frame.subobject.obj}
          /\ active' = frame.subobject.obj
          /\ pc' = "sub_mode_edit"
          /\ UNCHANGED <<objects, collections, mode, splitparts, fsVars, frame, log,
                         result, runs, sanVars>>
       \/ /\ ~IsPyObj(frame.subobject)
          /\ pc' = "raised"
          /\ result' = "AttributeError"
          /\ UNCHANGED <<hostVars, splitparts, fsVars, frame, log, runs, sanVars>>

\* bpy.ops.object.mode_set(mode = "EDIT")
SubModeEdit ==
    /\ pc = "sub_mode_edit"
    /\ \/ /\ mode' = "EDIT"
          /\ pc' = "mesh_select_all"
          /\ OpOk
          /\ UNCHANGED <<objects, collections, active, selected, splitparts, fsVars,
                         frame, result, runs, sanVars>>
       \/ HostFailure

\* bpy.ops.mesh.select_all(action = 'SELECT')
MeshSelectAll ==
    /\ pc = "mesh_select_all"
    /\ \/ /\ pc' = "glav_enter"
          /\ OpOk
          /\ UNCHANGED <<hostVars, splitparts, fsVars, frame, result, runs, sanVars>>
       \/ HostFailure

\* get_local_axis_vector: current_mode = bpy.context.object.mode, then
\* mode_set(mode = "OBJECT").
GlavEnter ==
    /\ pc = "glav_enter"
    /\ \/ /\ frame' = [frame EXCEPT !.current_mode = mode]
          /\ mode' = "OBJECT"
          /\ pc' = "glav_out"
          /\ OpOk
          /\ UNCHANGED <<objects, collections, active, selected, splitparts, fsVars,
                         result, runs, sanVars>>
       \/ HostFailure

\* The locations of the selected objects after a translate.
Translated(objs, sel, value, constraint_axis) ==
    [i \in DOMAIN objs |->
        IF i \in sel
        THEN [objs[i] EXCEPT
                 !.location = Translate(@, objs[i].rot, value, constraint_axis)]
        ELSE objs[i]]

\* get_local_axis_vector: v1 is read, then the selection is translated by
\* (X, Y, Z) in the local orientation.
GlavTranslateOut ==
    /\ pc = "glav_out"
    /\ \/ /\ frame' = [frame EXCEPT !.v1 = objects[frame.subobject.obj].location]
          /\ objects' = Translated(objects, selected, frame.axis,
                                   ConstraintAxis(frame.axis[1], frame.axis[2], frame.axis[3]))
          /\ pc' = "glav_back"
          /\ OpOk
          /\ UNCHANGED <<collections, active, selected, mode, splitparts, fsVars,
                         result, runs, sanVars>>
       \/ HostFailure

\* Variant: the second translate given (X, Y, Z) again.
BackValue_notNegated(axis) == axis

\* The value of the second translate: (-X, -Y, -Z).
BackValue(axis) == [i \in 1..3 |-> -axis[i]]

\* get_local_axis_vector: v2 is read, then the selection is translated back.
GlavTranslateBack ==
    /\ pc = "glav_back"
    /\ \/ /\ frame' = [frame EXCEPT !.v2 = objects[frame.subobject.obj].location]
          /\ objects' = Translated(objects, selected, BackValue(frame.axis),
                                   ConstraintAxis(frame.axis[1], frame.axis[2], frame.axis[3]))
          /\ pc' = "glav_exit"
          /\ OpOk
          /\ UNCHANGED <<collections, active, selected, mode, splitparts, fsVars,
                         result, runs, sanVars>>
       \/ HostFailure

\* get_local_axis_vector: mode_set(mode = current_mode); return v1 - v2, which
\* the caller keeps as cut_normal.
GlavExit ==
    /\ pc = "glav_exit"
    /\ \/ /\ mode' = frame.current_mode
          /\ frame' = [frame EXCEPT !.cut_normal = VSub(frame.v1, frame.v2)]
          /\ pc' = "bisect"
          /\ OpOk
          /\ UNCHANGED <<objects, collections, active, selected, splitparts, fsVars,
                         result, runs, sanVars>>
       \/ HostFailure

\* bpy.ops.mesh.bisect on the mesh of the object in edit mode: the plane goes
\* through subobject.location with normal cut_normal; a zero normal is refused.
BisectStep ==
    /\ pc = "bisect"
    /\ \/ /\ frame.cut_normal # <<0, 0, 0>>
          /\ LET o == objects[active]
                 plane_co == objects[frame.subobject.obj].location
                 clear_inner == ~frame.is_inner.bool
                 clear_outer == frame.is_inner.bool
             IN  /\ objects' = [objects EXCEPT
                        ![active].mesh = Bisect(o.mesh, o.location, o.rot, plane_co,
                                                frame.cut_normal, clear_inner, clear_outer),
                        ![active].consistent = FALSE]
                 /\ log' = [log EXCEPT
                        !.hostOps = @ + 1,
                        !.bisects = Append(@,
                            [active |-> active, inner |-> frame.inner,
                             outer |-> frame.outer, plane_co |-> plane_co,
                             plane_no |-> frame.cut_normal, clear_inner |-> clear_inner,
                             clear_outer |-> clear_outer, mode |-> mode,
                             pass |-> frame.passes, axis |-> frame.axis])]
          /\ pc' = "normals"
          /\ UNCHANGED <<collections, active, selected, mode, splitparts, fsVars,
                         frame, result, runs, sanVars>>
       \/ HostFailure

\* bpy.ops.mesh.normals_make_consistent(inside=False); the inner loop moves on.
NormalsMakeConsistent ==
    /\ pc = "normals"
    /\ \/ /\ objects' = [objects EXCEPT ![active].consistent = TRUE]
          /\ frame' = [frame EXCEPT !.sub = @ + 1]
          /\ pc' = "sub_next"
          /\ OpOk
          /\ UNCHANGED <<collections, active, selected, mode, splitparts, fsVars,
                         result, runs, sanVars>>
       \/ HostFailure

\* bpy.ops.object.mode_set(mode = "OBJECT") after the cuts; then "if
\* splitparts.export".
ModeObjectFinal ==
    /\ pc = "mode_object"
    /\ \/ /\ mode' = "OBJECT"
          /\ pc' = IF splitparts.export THEN "export_next" ELSE "return"
          /\ frame' = [frame EXCEPT !.exp_i = 0]
          /\ OpOk
          /\ UNCHANGED <<objects, collections, active, selected, splitparts, fsVars,
                         result, runs, sanVars>>
       \/ HostFailure

\* for object in collection.objects: the next object is handed to export_to_stl.
ExportNext ==
    /\ pc = "export_next"
    /\ frame.exp_i < Len(Parts)
    /\ frame' = [frame EXCEPT !.object = Parts[frame.exp_i + 1], !.mkdir = "none"]
    /\ pc' = "exp_select"
    /\ UNCHANGED <<hostVars, splitparts, fsVars, log, result, runs, sanVars>>

ExportDone ==
    /\ pc = "export_next"
    /\ frame.exp_i >= Len(Parts)
    /\ pc' = "return"
    /\ UNCHANGED <<hostVars, splitparts, fsVars, frame, log, result, runs, sanVars>>

\* -------------------------------------------------------- export_to_stl

\* select_all(action = 'DESELECT'); the object alone is selected and active.
ExpSelect ==
    /\ pc = "exp_select"
    /\ \/ /\ selected' = {frame.object}
          /\ active' = frame.object
          /\ pc' = "exp_makedirs"
          /\ OpOk
          /\ UNCHANGED <<objects, collections, mode, splitparts, fsVars, frame,
                         result, runs, sanVars>>
       \/ HostFailure

\* Variant: os.makedirs outside any try/except: its error ends the invocation
\* before the export operator is called.
ExpMakedirs_uncaught ==
    /\ pc = "exp_makedirs"
    /\ LET export_path == AbsPath(splitparts.export_path)
           dir == DirKey(export_path)
       IN  \/ /\ Len(export_path) = 0 \/ dir \in fs_dirs
              /\ frame' = [frame EXCEPT !.mkdir = "exists"]
              /\ pc' = "exp_stl"
              /\ UNCHANGED <<fs_dirs, log, result>>
           \/ /\ Len(export_path) > 0 /\ dir \notin fs_dirs
              /\ fs_dirs' = fs_dirs \cup {dir}
              /\ frame' = [frame EXCEPT !.mkdir = "created"]
              /\ pc' = "exp_stl"
              /\ UNCHANGED <<log, result>>
           \/ /\ Len(export_path) > 0 /\ dir \notin fs_dirs
              /\ frame' = [frame EXCEPT !.mkdir = "failed"]
              /\ log' = [log EXCEPT !.mkdirFailed = TRUE]
              /\ pc' = "raised"
              /\ result' = "OSError"
              /\ UNCHANGED fs_dirs
    /\ UNCHANGED <<hostVars, splitparts, fs_files, runs, sanVars>>

\* export_path = bpy.path.abspath(export_path); if it is not empty,
\* os.makedirs(export_path, exist_ok=True) inside try/except: an error is
\* printed and dropped.
ExpMakedirs ==
    /\ pc = "exp_makedirs"
    /\ LET export_path == AbsPath(splitparts.export_path)
           dir == DirKey(export_path)
       IN  \/ /\ Len(export_path) = 0 \/ dir \in fs_dirs
              /\ frame' = [frame EXCEPT !.mkdir = "exists"]
              /\ UNCHANGED <<fs_dirs, log>>
           \/ /\ Len(export_path) > 0 /\ dir \notin fs_dirs
              /\ fs_dirs' = fs_dirs \cup {dir}
              /\ frame' = [frame EXCEPT !.mkdir = "created"]
              /\ UNCHANGED log
           \/ /\ Len(export_path) > 0 /\ dir \notin fs_dirs
              /\ frame' = [frame EXCEPT !.mkdir = "failed"]
              /\ log' = [log EXCEPT !.mkdirFailed = TRUE]
              /\ UNCHANGED fs_dirs
    /\ pc' = "exp_stl"
    /\ UNCHANGED <<hostVars, splitparts, fs_files, result, runs, sanVars>>

\* One call of bpy.ops.export_mesh.stl, as the log keeps it.
ExportCall(ok) ==
    [object |-> frame.object,
     filepath |-> ExportFilepath(splitparts.export_path, objects[frame.object].name),
     mkdir |-> frame.mkdir, ok |-> ok]

\* Variant: the export call inside a try/except: a failed export is dropped and
\* the loop goes on with the next piece.
ExportStl_caught ==
    /\ pc = "exp_stl"
    /\ \/ /\ DirKey(Dirname(ExportCall(TRUE).filepath)) \in fs_dirs
          /\ fs_files' = fs_files \cup {ExportCall(TRUE).filepath}
          /\ log' = [log EXCEPT !.hostOps = @ + 1,
                                !.exports = Append(@, ExportCall(TRUE))]
       \/ /\ log' = [log EXCEPT !.hostOps = @ + 1, !.failed = TRUE,
                                !.exports = Append(@, ExportCall(FALSE))]
          /\ UNCHANGED fs_files
    /\ frame' = [frame EXCEPT !.exp_i = @ + 1]
    /\ pc' = "export_next"
    /\ UNCHANGED <<hostVars, splitparts, fs_dirs, result, runs, sanVars>>

\* The file name is built and bpy.ops.export_mesh.stl(filepath=...,
\* use_selection=True) is called: it writes the file, or fails (it cannot but
\* fail when the directory is missing) and the error leaves export_to_stl and
\* the loop of execute.
ExportStl ==
    /\ pc = "exp_stl"
    /\ \/ /\ DirKey(Dirname(ExportCall(TRUE).filepath)) \in fs_dirs
          /\ fs_files' = fs_files \cup {ExportCall(TRUE).filepath}
          /\ log' = [log EXCEPT !.hostOps = @ + 1,
                                !.exports = Append(@, ExportCall(TRUE))]
          /\ frame' = [frame EXCEPT !.exp_i = @ + 1]
          /\ pc' = "export_next"
          /\ UNCHANGED <<hostVars, splitparts, fs_dirs, result, runs, sanVars>>
       \/ /\ pc' = "raised"
          /\ result' = "RuntimeError"
          /\ log' = [log EXCEPT !.hostOps = @ + 1, !.failed = TRUE,
                                !.exports = Append(@, ExportCall(FALSE))]
          /\ UNCHANGED <<hostVars, fsVars, frame, splitparts, runs, sanVars>>

\* return {'FINISHED'}
Return ==
    /\ pc = "return"
    /\ pc' = "finished"
    /\ result' = "FINISHED"
    /\ UNCHANGED <<hostVars, splitparts, fsVars, frame, log, runs, sanVars>>

Next ==
    \/ Invoke
    \/ CollectionLookup
    \/ DuplicateSource
    \/ RenameAndLink
    \/ ModifierApply
    \/ ModifiersDone
    \/ CutAlongAxis
    \/ SkipAxis
    \/ LoopNext
    \/ PassDone
    \/ GioModeSet
    \/ GioSelect
    \/ GioDuplicate
    \/ RenameParts
    \/ SubNext
    \/ SubDone
    \/ SubModeObject
    \/ SubDeselect
    \/ SubSelect
    \/ SubModeEdit
    \/ MeshSelectAll
    \/ GlavEnter
    \/ GlavTranslateOut
    \/ GlavTranslateBack
    \/ GlavExit
    \/ BisectStep
    \/ NormalsMakeConsistent
    \/ ModeObjectFinal
    \/ ExportNext
    \/ ExportDone
    \/ ExpSelect
    \/ ExpMakedirs
    \/ ExportStl
    \/ Return

Spec == Init /\ [][Next]_vars

\* ------------------------------------------ the sanitization on its own

\* The characters the object names of this check are made of: the nine the
\* pattern removes and two it keeps.
SanAlphabet == IllegalChars \cup {"a", "."}

RECURSIVE NamesOfLen(_)
NamesOfLen(n) ==
    IF n = 0 THEN { <<>> }
    ELSE { Append(w, c) : w \in NamesOfLen(n - 1), c \in SanAlphabet }

SanNames == UNION { NamesOfLen(n) : n \in 0..MaxLen }

InitSanitize ==
    /\ objects = <<>>
    /\ collections = <<>>
    /\ active = 0
    /\ selected = {}
    /\ mode = "OBJECT"
    /\ splitparts = [axis |-> <<FALSE, FALSE, FALSE>>, export |-> FALSE,
                     export_path |-> <<"/", "/">>]
    /\ fs_dirs = {}
    /\ fs_files = {}
    /\ pc = "idle"
    /\ frame = Frame0
    /\ log = Log0
    /\ result = "none"
    /\ runs = 0
    /\ san_in \in SanNames
    /\ san_out = <<>>
    /\ san_pc = 0

\* The object name goes through the re.sub of export_to_stl.
SanitizeName ==
    /\ san_pc = 0
    /\ san_out' = <<Sanitize(san_in)>>
    /\ san_pc' = 1
    /\ UNCHANGED <<hostVars, splitparts, fsVars, pc, frame, log, result, runs, san_in>>

\* What it returned goes through it again.
SanitizeAgain ==
    /\ san_pc = 1
    /\ san_out' = Append(san_out, Sanitize(san_out[1]))
    /\ san_pc' = 2
    /\ UNCHANGED <<hostVars, splitparts, fsVars, pc, frame, log, result, runs, san_in>>

NextSanitize == SanitizeName \/ SanitizeAgain

SpecSanitize == InitSanitize /\ [][NextSanitize]_vars

\* ================================================================ claims

\* The pieces of the collection derived from the source object's name.
WorkingCollection == FindCollection(collections, CollectionName(objects[Source].name))
Pieces == IF WorkingCollection = 0 THEN <<>> ELSE collections[WorkingCollection].objects

\* C1 (as stated): whenever execute returns FINISHED, on a first run or on a
\* later run that finds the collection populated, the working collection holds
\* exactly 2^k pieces, k the number of enabled axes.
C1_PieceCountEveryRun ==
    pc = "finished" => Len(Pieces) = Pow2(AxisCount(splitparts.axis))

\* C1, first invocation only: the count is 2^k (what the code does keep).
C1_PieceCountFirstRun ==
    (pc = "finished" /\ runs = 1) => Len(Pieces) = Pow2(AxisCount(splitparts.axis))

\* C1, later invocations: n pieces found and k axes enabled give (n + 1) * 2^k.
C1_RerunAccumulates ==
    pc = "finished" => Len(Pieces) = (frame.n0) * Pow2(AxisCount(splitparts.axis))

\* C2 (as stated): under every iteration order of the sets of the loop header,
\* the object handled in the loop body is one of the two pieces and the flag is
\* the boolean written beside it; no invocation ends in the loop header's
\* AttributeError, and every bisect call pairs the inner piece with
\* clear_outer and the outer piece with clear_inner.
InLoopBody ==
    pc \in {"sub_mode_object", "sub_deselect", "sub_select", "sub_mode_edit",
            "mesh_select_all", "glav_enter", "glav_out", "glav_back", "glav_exit",
            "bisect", "normals"}

C2_SubobjectIsPiece ==
    /\ InLoopBody =>
          /\ IsPyObj(frame.subobject)
          /\ IsPyBool(frame.is_inner)
          /\ frame.subobject.obj \in {frame.inner, frame.outer}
          /\ frame.is_inner.bool = (frame.subobject.obj = frame.inner)
    /\ result # "AttributeError"
    /\ \A i \in DOMAIN log.bisects :
          LET b == log.bisects[i]
          IN  /\ b.active \in {b.inner, b.outer}
              /\ b.clear_outer = (b.active = b.inner)
              /\ b.clear_inner = (b.active = b.outer)

\* C2, the part the code keeps: when both sets happen to yield the object
\* first, the two bisect calls of a piece pair are complementary and the two
\* halves share no octant and together fill what the piece filled.
C2_GoodOrderComplementary ==
    \A i \in DOMAIN log.bisects :
        LET b == log.bisects[i]
        IN  /\ b.clear_outer = (b.active = b.inner)
            /\ b.clear_inner = ~b.clear_outer
            /\ (b.active = b.outer /\ pc = "normals" /\ i = Len(log.bisects)) =>
                  objects[b.inner].mesh \cap objects[b.outer].mesh = {}

\* C3: once an invocation has looked its collection up, exactly one collection
\* is derived from the source's name N, it is named N_parts, it is linked, it
\* is the one execute works in, and no collection N_parts.NNN exists.
DerivedCollections ==
    {c \in DOMAIN collections :
        StripNumSuffix(collections[c].name) = CollectionName(objects[Source].name)}

C3_OneCollection ==
    /\ Cardinality(DerivedCollections) <= 1
    /\ (runs > 0 /\ pc # "lookup") =>
          /\ Cardinality(DerivedCollections) = 1
          /\ \A c \in DerivedCollections :
                /\ collections[c].name = CollectionName(objects[Source].name)
                /\ collections[c].linked
                /\ frame.collection = c

\* C3 witness: a second invocation found the collection of the first one.
C3_Witness ==
    /\ runs = 2
    /\ pc = "duplicate"
    /\ Cardinality(DerivedCollections) = 1
    /\ Len(Pieces) > 0

\* C4 (as stated): with export enabled and the directory creation failed, the
\* export operator is still invoked for every piece of the collection before
\* the invocation ends (stated for a first invocation, where it already fails).
C4_EveryPieceAttempted ==
    (pc \in {"raised", "finished"} /\ log.mkdirFailed /\ runs = 1) =>
        Len(log.exports) = Len(Pieces)

\* C4 (amended): a failed directory creation is caught, so the export operator
\* is still invoked for that piece; that call fails, the error is not caught,
\* and the invocation ends there: the operator was invoked for that piece and
\* the ones before it, for none after it, and execute does not finish.
C4_FailedExportEndsLoop ==
    log.mkdirFailed =>
        /\ pc \in {"exp_stl", "raised"}
        /\ frame.mkdir = "failed"
        /\ pc = "exp_stl" => Len(log.exports) = frame.exp_i
        /\ pc = "raised" =>
              /\ result = "RuntimeError"
              /\ Len(log.exports) = frame.exp_i + 1
              /\ log.exports[Len(log.exports)].object = Pieces[frame.exp_i + 1]
              /\ log.exports[Len(log.exports)].mkdir = "failed"
              /\ ~log.exports[Len(log.exports)].ok
              /\ \A i \in 1..frame.exp_i : log.exports[i].ok

\* C4 witness: the export loop was left at a failed export after a failed
\* directory creation, with pieces still to export.
C4_Witness ==
    /\ pc = "raised"
    /\ log.mkdirFailed
    /\ Len(log.exports) < Len(Pieces)

\* C5: a failed host operator call ends the invocation on the spot: the step
\* that fails changes no object, no collection and no file, execute does not
\* return FINISHED, and after it nothing happens until the operator is invoked
\* anew.
C5_HostFailureIsFatal ==
    [][ /\ (log'.failed /\ ~log.failed) =>
              /\ pc' = "raised"
              /\ result' = "RuntimeError"
              /\ objects' = objects
              /\ collections' = collections
              /\ fs_files' = fs_files
              /\ log'.hostOps = log.hostOps + 1
        /\ log.failed =>
              /\ pc = "raised"
              /\ pc' = "lookup"
              /\ runs' = runs + 1 ]_vars

\* C5 witness: an invocation ended by a host failure between the cut of an
\* inner piece and the cut of its duplicate.
C5_Witness ==
    /\ pc = "raised"
    /\ log.failed
    /\ Len(log.bisects) % 2 = 1
    /\ Len(Pieces) >= 2

\* The characters C6 and C8 say no file name keeps.
ForbiddenInFileNames == {"\\", "/", ":", "*", "?", "\"", "<", ">", "|"}

WithoutForbidden(name) == SelectSeq(name, LAMBDA c : c \notin ForbiddenInFileNames)

\* '<export dir>/<document basename>-<sanitized piece name>.stl'
ClaimedFilepath(dir, objname) ==
    DirKey(dir) \o <<"/", "s", "c", "e", "n", "e", "-">> \o WithoutForbidden(objname)
        \o <<".", "s", "t", "l">>

InExportLoop == pc \in {"export_next", "exp_select", "exp_makedirs", "exp_stl"}

\* C6: in the export loop the export operator has been called once for each
\* piece visited, in the collection's order, at the path
\* '<export dir>/<document basename>-<sanitized piece name>.stl', the paths are
\* pairwise distinct and every file written exists; when execute then returns
\* FINISHED, there is one call and one file per piece of the collection.
C6_OneFilePerPiece ==
    /\ (InExportLoop \/ (pc \in {"return", "finished"} /\ splitparts.export)) =>
          /\ Len(log.exports) = frame.exp_i
          /\ \A i \in DOMAIN log.exports :
                /\ log.exports[i].object = Pieces[i]
                /\ log.exports[i].ok
                /\ log.exports[i].filepath \in fs_files
                /\ log.exports[i].filepath =
                      ClaimedFilepath(AbsPath(splitparts.export_path),
                                      objects[Pieces[i]].name)
          /\ \A i, j \in DOMAIN log.exports :
                i # j => log.exports[i].filepath # log.exports[j].filepath
    /\ (pc = "finished" /\ splitparts.export) =>
          /\ Len(log.exports) = Len(Pieces)
          /\ Cardinality({log.exports[i].filepath : i \in DOMAIN log.exports})
                = Len(Pieces)

\* C6 witness: execute finished after exporting the four pieces of two passes.
C6_Witness ==
    /\ pc = "finished"
    /\ splitparts.export
    /\ Len(Pieces) >= 4
    /\ Len(log.exports) = Len(Pieces)
    /\ \A i \in DOMAIN log.exports : log.exports[i].filepath \in fs_files

\* The name C7 expects to carry index digit d and the axis triple (x, y, z).
ClaimedPartName(d, x, y, z, role) ==
    <<"P", "a", "r", "t", " ", d, " ", "-", " ", x, "-", y, "-", z, " ", "-", " ">>
        \o role

PieceNames == {objects[Pieces[i]].name : i \in DOMAIN Pieces}

CarriesTriple(name, x, y, z) ==
    \E d \in {"0", "1", "2", "3"}, role \in {sInner, sOuter} :
        name = ClaimedPartName(d, x, y, z, role)

\* C7 (as stated): after execute on a fresh scene with axes X and Z enabled the
\* collection holds 4 pieces, named distinctly, and both axis triples, (1,0,0)
\* and (0,0,1), appear among the final names.
C7_BothTriplesInNames ==
    (pc = "finished" /\ runs = 1 /\ splitparts.axis = <<TRUE, FALSE, TRUE>>) =>
        /\ Len(Pieces) = 4
        /\ Cardinality(PieceNames) = 4
        /\ \E n \in PieceNames : CarriesTriple(n, "1", "0", "0")
        /\ \E n \in PieceNames : CarriesTriple(n, "0", "0", "1")

\* The last enabled axis of a selection, as a triple.
LastAxis(axis) ==
    UnitAxis(CHOOSE a \in 1..3 : axis[a] /\ \A b \in 1..3 : axis[b] => b <= a)

\* C7 (amended): when execute returns FINISHED on a fresh scene with at least
\* one axis enabled, the names are pairwise distinct and every name is
\* "Part <i> - <X>-<Y>-<Z> - Inner|Outer" with the triple of the LAST enabled
\* axis only: the first half of the collection are that pass's inner pieces,
\* the second half their duplicates, i the position in that pass. For X and Z:
\* four pieces "Part 0|1 - 0-0-1 - Inner|Outer", no name carrying (1,0,0).
C7_NamesCarryLastAxisOnly ==
    (pc = "finished" /\ runs = 1 /\ AxisCount(splitparts.axis) >= 1) =>
        LET n == Len(Pieces) \div 2
            t == LastAxis(splitparts.axis)
        IN  /\ Len(Pieces) = 2 * n
            /\ Cardinality(PieceNames) = Len(Pieces)
            /\ \A i \in 1..n :
                  /\ objects[Pieces[i]].name =
                        ClaimedPartName(Digit[i], Digit[t[1] + 1], Digit[t[2] + 1],
                                        Digit[t[3] + 1], sInner)
                  /\ objects[Pieces[n + i]].name =
                        ClaimedPartName(Digit[i], Digit[t[1] + 1], Digit[t[2] + 1],
                                        Digit[t[3] + 1], sOuter)
            /\ splitparts.axis = <<TRUE, FALSE, TRUE>> =>
                  /\ PieceNames = {ClaimedPartName(d, "0", "0", "1", role) :
                                      d \in {"0", "1"}, role \in {sInner, sOuter}}
                  /\ \A m \in PieceNames : ~CarriesTriple(m, "1", "0", "0")

\* C7 witness: execute finished on a fresh scene with X and Z enabled.
C7_Witness ==
    /\ pc = "finished"
    /\ runs = 1
    /\ splitparts.axis = <<TRUE, FALSE, TRUE>>
    /\ Len(Pieces) = 4

InPass ==
    pc \in {"loop", "gio_mode", "gio_select", "gio_duplicate", "rename", "sub_next"}
    \/ InLoopBody

AxisIndex(t) == CHOOSE a \in 1..3 : t[a] = 1

\* C9: passes run in the order X, Y, Z over the enabled axes; during a pass the
\* loop walks the objects the collection held on entry, in order, and never a
\* duplicate made in the pass; each object walked gets one duplicate, appended
\* to the collection; a pass that returns has cut every object of the
\* collection once and left twice the objects it found, and after k passes the
\* collection holds (objects before the first pass) * 2^k objects, all of them
\* taken by the next pass.
C9_PassDoublesSnapshot ==
    /\ InPass =>
          /\ Len(frame.snapshot) = frame.before
          /\ frame.snapshot = SubSeq(Parts, 1, frame.before)
          /\ frame.before = frame.n0 * Pow2(frame.passes)
          /\ frame.index <= frame.before
          /\ pc # "loop" => /\ frame.index < frame.before
                            /\ frame.object = frame.snapshot[frame.index + 1]
          /\ Len(Parts) \in {frame.before + frame.index, frame.before + frame.index + 1}
          /\ pc \in {"loop", "gio_mode", "gio_select", "gio_duplicate"} =>
                Len(Parts) = frame.before + frame.index
          /\ (pc = "loop" /\ frame.index = 0) => frame.snapshot = Parts
    /\ (pc \in {"if_Y", "if_Z", "mode_object"} /\ frame.passes > 0) =>
          /\ Len(Parts) = 2 * frame.before
          /\ Len(Parts) = frame.n0 * Pow2(frame.passes)
          /\ \A i \in DOMAIN Parts :
                Cardinality({j \in DOMAIN log.bisects :
                                /\ log.bisects[j].active = Parts[i]
                                /\ log.bisects[j].pass = frame.passes - 1}) = 1
    /\ \A i, j \in DOMAIN log.bisects :
          i <= j => /\ AxisIndex(log.bisects[i].axis) <= AxisIndex(log.bisects[j].axis)
                    /\ log.bisects[i].pass <= log.bisects[j].pass
                    /\ splitparts.axis[AxisIndex(log.bisects[i].axis)]
    /\ pc \in {"mode_object", "export_next", "return", "finished"} =>
          /\ frame.passes = AxisCount(splitparts.axis)
          /\ Len(Parts) = frame.n0 * Pow2(AxisCount(splitparts.axis))

\* C9 witness: three passes have returned and the one object has become eight.
C9_Witness ==
    /\ pc = "mode_object"
    /\ frame.passes = 3
    /\ frame.n0 = 1
    /\ Len(Parts) = 8

\* The coordinate the pass's translation moves: the parent-frame axis onto
\* which the object's local pass axis falls.
MovedCoordinate(rot, axis) ==
    CHOOSE i \in 1..3 : LocalToWorld(rot, axis)[i] # 0

AfterGlav == pc \in {"bisect", "normals"}

\* C10 (as stated): get_local_axis_vector leaves the object's location and the
\* editing mode exactly as they were, a second call returns the same vector,
\* and the bisect that follows runs in EDIT mode with the plane at the
\* location the object had before the call.
C10_LocationExactlyRestored ==
    /\ pc = "bisect" =>
          LET o == objects[frame.subobject.obj]
              again == GetLocalAxisVector(o.location, o.rot, mode, frame.axis[1],
                                          frame.axis[2], frame.axis[3])
          IN  /\ o.location = frame.v1
              /\ mode = frame.current_mode
              /\ again.ret = frame.cut_normal
    /\ pc = "normals" =>
          /\ log.bisects[Len(log.bisects)].mode = "EDIT"
          /\ log.bisects[Len(log.bisects)].plane_co = frame.v1

\* C10 (amended): get_local_axis_vector restores the editing mode exactly and
\* the location up to the rounding of the two translations: the coordinates
\* off the probed axis are untouched, the coordinate along it ends within one
\* unit in the last place of the translated coordinate, and exactly where it
\* was when the translated coordinate needed no rounding. The location it
\* leaves is a fixed point: a second call returns a vector within the same
\* tolerance of the first, a third the very vector of the second, and neither
\* moves the object. The bisect that follows runs in EDIT mode with the plane
\* at the location the object has then.
C10_LocationRestoredUpToRounding ==
    /\ AfterGlav =>
          LET o == objects[frame.subobject.obj]
              m == MovedCoordinate(o.rot, frame.axis)
              exact == frame.v1[m] + One * LocalToWorld(o.rot, frame.axis)[m]
              second == GetLocalAxisVector(o.location, o.rot, mode, frame.axis[1],
                                           frame.axis[2], frame.axis[3])
              third == GetLocalAxisVector(second.location, o.rot, second.mode,
                                          frame.axis[1], frame.axis[2], frame.axis[3])
          IN  /\ mode = "EDIT"
              /\ frame.current_mode = "EDIT"
              /\ \A i \in (1..3) \ {m} : o.location[i] = frame.v1[i]
              /\ Abs(o.location[m] - frame.v1[m]) <= Ulp(frame.v2[m])
              /\ frame.v2[m] = exact => o.location = frame.v1
              /\ second.location = o.location
              /\ second.mode = mode
              /\ \A i \in 1..3 :
                    Abs(second.ret[i] - frame.cut_normal[i]) <= Ulp(frame.v2[m])
              /\ third.ret = second.ret
              /\ third.location = second.location
    /\ pc = "normals" =>
          /\ log.bisects[Len(log.bisects)].mode = "EDIT"
          /\ log.bisects[Len(log.bisects)].plane_co
                = objects[frame.subobject.obj].location

\* C10 witness: get_local_axis_vector has returned, the outward translation
\* was rounded, and the bisect ran on the moved object.
C10_Witness ==
    /\ pc = "normals"
    /\ objects[frame.subobject.obj].location # frame.v1
    /\ log.bisects[Len(log.bisects)].mode = "EDIT"

\* C8: what the sanitization returns holds none of the nine characters, is the
\* name's other characters in their order, and goes through the sanitization
\* unchanged.
KeptPositions(name) == {i \in 1..Len(name) : name[i] \notin ForbiddenInFileNames}

NthKept(name, j) ==
    CHOOSE i \in KeptPositions(name) :
        Cardinality({k \in KeptPositions(name) : k <= i}) = j

C8_SanitizeRemovesAndIsIdempotent ==
    /\ san_pc >= 1 =>
          /\ \A j \in 1..Len(san_out[1]) : san_out[1][j] \notin ForbiddenInFileNames
          /\ Len(san_out[1]) = Cardinality(KeptPositions(san_in))
          /\ \A j \in 1..Len(san_out[1]) : san_out[1][j] = san_in[NthKept(san_in, j)]
    /\ san_pc = 2 => san_out[2] = san_out[1]

\* C8 witness: a name with a forbidden character between two kept ones has
\* gone through the sanitization twice.
C8_Witness ==
    /\ san_pc = 2
    /\ Len(san_in) = 3
    /\ san_in[2] \in ForbiddenInFileNames
    /\ san_out[1] = <<san_in[1], san_in[3]>>

====
